---- MODULE Spec2Model ----
(***************************************************************************)
(* Model of the bookkeeping API (backend/main.py, auth.py, crud.py,        *)
(* models.py, schemas.py, utils.py).                                       *)
(*                                                                         *)
(*   Spec      : the transaction endpoints, one action per handler         *)
(*   SpecUsers : startup seeding, login/logout and the user endpoints      *)
(*   SpecToken : create_access_token / verify_token / get_current_user     *)
(*   SpecConc  : DELETE /api/transactions/{id} handled by two concurrent   *)
(*               requests, one step per store call                         *)
(*                                                                         *)
(* Time is counted in whole seconds, the resolution of the JWT exp claim.  *)
(***************************************************************************)
EXTENDS Integers, Sequences, FiniteSets, TLC

VARIABLES
    started,       \* the startup hook has run in this process
    users,         \* table users        (set of rows)
    transactions,  \* table transactions (set of rows)
    logfile,       \* logs/actions.log   (sequence of lines)
    cookie,        \* the "token" cookie the client holds
    issued,        \* how the held token was issued: time, duration (history)
    now,           \* datetime.utcnow(), in seconds
    resp,          \* what the last request returned
    reqs           \* SpecConc: the in-flight delete requests

vars == <<started, users, transactions, logfile, cookie, issued, now, resp, reqs>>

(***************************************************************************)
(* Bounds of the model                                                     *)
(***************************************************************************)
MaxIssueAt == 1      \* tokens are issued at seconds 0..MaxIssueAt
MaxTx      == 2      \* transaction ids are 1..MaxTx
MaxLog     == 1      \* lines the log volume has room for

(***************************************************************************)
(* auth.py                                                                 *)
(***************************************************************************)
EXPIRE_MINUTES   == 60
SecondsPerMinute == 60

\* str(user.id) and int(payload.get("sub")): decimal text of the ids in use
Digits == <<"1", "2", "3", "4", "5", "6", "7", "8", "9">>

PyStr(n) == Digits[n]

\* text int() accepts, with its value; "01" is accepted and is 1
IntTexts == { <<Digits[n], n>> : n \in 1..Len(Digits) } \cup { <<"01", 1>> }

\* int(payload.get("sub")): TypeError on None, ValueError on non-numeric text
PyInt(payload) ==
    IF "sub" \notin DOMAIN payload
    THEN [ok |-> FALSE, error |-> "TypeError", val |-> 0]
    ELSE IF \E p \in IntTexts : p[1] = payload.sub
         THEN [ok |-> TRUE, error |-> "",
               val |-> (CHOOSE p \in IntTexts : p[1] = payload.sub)[2]]
         ELSE [ok |-> FALSE, error |-> "ValueError", val |-> 0]

hash_password(plain) == [digest_of |-> plain]

verify_password(plain, hashed) == hashed.digest_of = plain

NoToken   == [kind |-> "none"]       \* no cookie sent
EmptyToken == [kind |-> "empty"]     \* cookie sent with an empty value
Garbage   == [kind |-> "garbage"]    \* not three base64 segments

\* mutant: the duration is taken as seconds
create_access_token_secs(data, expires_delta, t) ==
    [kind |-> "jwt", payload |-> [exp |-> t + expires_delta] @@ data, sig |-> "ok"]

create_access_token(data, expires_delta, t) ==
    [kind |-> "jwt",
     payload |-> [exp |-> t + expires_delta * SecondsPerMinute] @@ data,
     sig |-> "ok"]

Expired == [ok |-> FALSE, error |-> "ValueError", msg |-> "Token expired"]
Invalid == [ok |-> FALSE, error |-> "ValueError", msg |-> "Invalid token"]
Decoded(payload) == [ok |-> TRUE, payload |-> payload]

\* The outcomes of verify_token(token) at time t.  jwt.decode checks the
\* signature first, then exp; at t = exp the library version decides
\* (exp <= now in PyJWT 2, exp < now in PyJWT 1), so both outcomes are kept.
verify_token(token, t) ==
    IF token.kind # "jwt" \/ token.sig # "ok" THEN {Invalid}
    ELSE IF token.payload.exp < t THEN {Expired}
    ELSE IF token.payload.exp = t THEN {Expired, Decoded(token.payload)}
    ELSE {Decoded(token.payload)}

(***************************************************************************)
(* main.py: get_current_user                                               *)
(***************************************************************************)
Http401(detail) == [ok |-> FALSE, status |-> 401, detail |-> detail]
Resolved(u)     == [ok |-> TRUE, user |-> u]

\* mutant: the HTTPException raised inside the try block is not re-wrapped
ResolveDecoded_leaky(out, rows) ==
    IF ~out.ok THEN Http401("Invalid or expired token")
    ELSE LET n == PyInt(out.payload) IN
         IF ~n.ok THEN Http401("Invalid or expired token")
         ELSE IF \E u \in rows : u.id = n.val
              THEN Resolved(CHOOSE u \in rows : u.id = n.val)
              ELSE Http401("User not found")

\* lines 49-57: everything raised in the try block, the HTTPException of
\* line 54 included, leaves as the 401 of line 57
ResolveDecoded(out, rows) ==
    IF ~out.ok THEN Http401("Invalid or expired token")
    ELSE LET n == PyInt(out.payload) IN
         IF ~n.ok THEN Http401("Invalid or expired token")
         ELSE IF \E u \in rows : u.id = n.val
              THEN Resolved(CHOOSE u \in rows : u.id = n.val)
              ELSE Http401("Invalid or expired token")

get_current_user(token, t, rows) ==
    IF token.kind \in {"none", "empty"} THEN {Http401("Not authenticated")}
    ELSE { ResolveDecoded(out, rows) : out \in verify_token(token, t) }

(***************************************************************************)
(* models.py, database.py: the tables                                      *)
(***************************************************************************)
MaxOf(S) == CHOOSE m \in S : \A x \in S : x <= m

\* Integer primary key of a SQLite table (the default DATABASE_URL): the
\* row id after the largest one in the table, 1 in an empty table
NextId(rows) == IF rows = {} THEN 1 ELSE MaxOf({ r.id : r \in rows }) + 1

User(id, username, password, role) ==
    [id |-> id, username |-> username,
     password_hash |-> hash_password(password), role |-> role]

\* create_initial_users: alice (admin) and bob (user), added in this order
SeedUsers == { User(1, "alice", "alice_pass", "admin"),
               User(2, "bob", "bob_pass", "user") }

NoResp  == [op |-> "none"]
NoIssue == [at |-> 0, d |-> 0, data |-> [iss |-> "none"]]

(***************************************************************************)
(* SpecToken: the token service and session resolution on their own.      *)
(* A token is issued for some claims and a duration, the client may alter *)
(* or drop it, time passes, and the server verifies what it is sent.      *)
(***************************************************************************)
Durations == {1, EXPIRE_MINUTES}

\* "sub" values a signed token may carry: ids of stored users, an id of no
\* stored user, non-canonical and non-numeric text; and no "sub" at all
TokenData == { [sub |-> s] : s \in {"1", "2", "9", "01", "abc"} }
                 \cup { [iss |-> "other"] }

Instants ==
    (0..MaxIssueAt) \cup
    { t + d * SecondsPerMinute + e :
        t \in 0..MaxIssueAt, d \in Durations, e \in {-1, 0, 1} }

InitToken ==
    /\ started = TRUE
    /\ users = SeedUsers
    /\ transactions = {}
    /\ logfile = <<>>
    /\ cookie = NoToken
    /\ issued = NoIssue
    /\ now = 0
    /\ resp = NoResp
    /\ reqs = <<>>

Issue(data, d) ==
    /\ now <= MaxIssueAt
    /\ cookie' = create_access_token(data, d, now)
    /\ issued' = [at |-> now, d |-> d, data |-> data]
    /\ resp' = NoResp
    /\ UNCHANGED <<started, users, transactions, logfile, now, reqs>>

\* the client changes the payload of the token it holds; the signature,
\* made with SECRET_KEY, no longer matches
Tamper(data, exp) ==
    /\ cookie.kind = "jwt"
    /\ cookie' = [cookie EXCEPT !.payload = [exp |-> exp] @@ data, !.sig = "bad"]
    /\ resp' = NoResp
    /\ UNCHANGED <<started, users, transactions, logfile, issued, now, reqs>>

Replace(t) ==
    /\ cookie' = t
    /\ issued' = NoIssue
    /\ resp' = NoResp
    /\ UNCHANGED <<started, users, transactions, logfile, now, reqs>>

Tick(t) ==
    /\ t > now
    /\ now' = t
    /\ resp' = NoResp
    /\ UNCHANGED <<started, users, transactions, logfile, cookie, issued, reqs>>

Verify ==
    /\ cookie.kind # "none"
    /\ \E out \in verify_token(cookie, now) :
          resp' = [op |-> "verify", out |-> out]
    /\ UNCHANGED <<started, users, transactions, logfile, cookie, issued, now, reqs>>

Resolve ==
    /\ \E out \in get_current_user(cookie, now, users) :
          resp' = [op |-> "resolve", out |-> out]
    /\ UNCHANGED <<started, users, transactions, logfile, cookie, issued, now, reqs>>

NextToken ==
    \/ \E data \in TokenData, d \in Durations : Issue(data, d)
    \/ \E data \in TokenData, exp \in {now, MaxOf(Instants)} : Tamper(data, exp)
    \/ \E t \in {NoToken, EmptyToken, Garbage} : Replace(t)
    \/ \E t \in Instants : Tick(t)
    \/ Verify
    \/ Resolve

SpecToken == InitToken /\ [][NextToken]_vars

\* C4: a token issued at t for subject X with duration d minutes, verified
\* at t': the payload with subject X while untampered and t' < t + d;
\* "Token expired" when the signature is valid and t' > t + d; "Invalid
\* token" when altered or malformed, whatever the time; and the two errors
\* differ.
C4_VerifyByTime ==
    resp.op = "verify" =>
        LET deadline == issued.at + issued.d * 60
            intact   == cookie.kind = "jwt" /\ cookie.sig = "ok"
        IN  /\ (intact /\ now < deadline) =>
                 /\ resp.out.ok
                 /\ resp.out.payload.exp = deadline
                 /\ \A k \in DOMAIN issued.data :
                        resp.out.payload[k] = issued.data[k]
            /\ (intact /\ now > deadline) =>
                 (~resp.out.ok /\ resp.out.msg = "Token expired")
            /\ ~intact =>
                 (~resp.out.ok /\ resp.out.msg = "Invalid token")
            /\ Expired # Invalid

C4_Witness ==
    /\ resp.op = "verify"
    /\ cookie.kind = "jwt" /\ cookie.sig = "ok"
    /\ issued.d = EXPIRE_MINUTES
    /\ now = issued.at + EXPIRE_MINUTES * SecondsPerMinute + 1
    /\ resp.out = Expired

\* C3: session resolution yields a user only for a verifying token whose
\* subject is the id of a stored user, and then that user; without a token
\* it is 401; and every other failure (expired, invalid, malformed, no or
\* non-numeric subject, unknown user) is one and the same 401.
C3_ResolveSession ==
    resp.op = "resolve" =>
        LET present == cookie.kind \notin {"none", "empty"}
            intact  == cookie.kind = "jwt" /\ cookie.sig = "ok"
            named   == IF intact /\ "sub" \in DOMAIN cookie.payload
                       THEN { u \in users :
                                <<cookie.payload.sub, u.id>> \in IntTexts }
                       ELSE {}
        IN  /\ resp.out.ok =>
                 /\ intact /\ now <= cookie.payload.exp
                 /\ resp.out.user \in named
                 /\ resp.out.user \in users
            /\ (intact /\ now < cookie.payload.exp /\ named # {}) => resp.out.ok
            /\ ~present =>
                 (~resp.out.ok /\ resp.out.status = 401
                    /\ resp.out.detail = "Not authenticated")
            /\ (present /\ (~intact \/ now > cookie.payload.exp \/ named = {})) =>
                 (~resp.out.ok /\ resp.out.status = 401
                    /\ resp.out.detail = "Invalid or expired token")

\* a validly signed, unexpired token whose subject is no stored user
C3_Witness ==
    /\ resp.op = "resolve"
    /\ cookie.kind = "jwt" /\ cookie.sig = "ok"
    /\ now < cookie.payload.exp
    /\ "sub" \in DOMAIN cookie.payload /\ cookie.payload.sub = "9"
    /\ ~resp.out.ok /\ resp.out.status = 401

(***************************************************************************)
(* utils.py: record_log                                                    *)
(***************************************************************************)
\* open(filename, "a") / f.write raise OSError once the volume is full
LogHasRoom == Len(logfile) < MaxLog

LogLine(user_id, action) == [user_id |-> user_id, action |-> action]

(***************************************************************************)
(* schemas.py, crud.py                                                     *)
(***************************************************************************)
Dates      == {1, 2}
Categories == {"food"}
Amounts    == {1250}            \* 12.50, in hundredths
Notes      == {"lunch"}
TxTypes    == {"income", "expense"}

\* the JSON bodies of POST /api/transactions
TxBodies ==
    [category : Categories, amount : Amounts, date : Dates, note : Notes,
     type : TxTypes]

\* TransactionCreate declares category, amount, date and note; pydantic
\* drops the fields of the body the schema does not declare
TransactionCreate(body) ==
    [category |-> body.category, amount |-> body.amount,
     date |-> body.date, note |-> body.note]

\* create_transaction: type is not passed, the column default fills it
NewTransaction(rows, user, tx_in) ==
    [id |-> NextId(rows), user_id |-> user.id, category |-> tx_in.category,
     amount |-> tx_in.amount, date |-> tx_in.date, note |-> tx_in.note,
     type |-> "expense"]

\* delete_transaction: the rows left, and whether a row was removed
RowsAfterDelete(rows, tx_id) == { t \in rows : t.id # tx_id }

DeleteRemoved(rows, tx_id) == \E t \in rows : t.id = tx_id

\* mutant: unique=True missing on users.username
UsernameTaken_off(rows, username) == FALSE

\* models.py: username is unique; the commit raises IntegrityError
UsernameTaken(rows, username) == \E u \in rows : u.username = username

\* ORDER BY date DESC: every order of the rows with dates descending
\* (SQL leaves the order of equal dates open)
Perms(S) ==
    { f \in [1..Cardinality(S) -> S] :
        \A i, j \in 1..Cardinality(S) : i # j => f[i] # f[j] }

OrderByDateDesc(S) ==
    { f \in Perms(S) : \A i, j \in DOMAIN f : i < j => f[i].date >= f[j].date }

(***************************************************************************)
(* main.py: the transaction handlers                                       *)
(***************************************************************************)
\* uid: the id of the session's user (0 when the session did not resolve);
\* tx_id: the transaction the request named or created (0 when none)
Response(op, status, uid, tx_id, body, error) ==
    [op |-> op, status |-> status, uid |-> uid, tx_id |-> tx_id,
     body |-> body, error |-> error]

\* tokens of earlier logins that clients still hold (a token stays valid
\* until its exp; nothing revokes it), or no cookie at all
SessionTokens ==
    {NoToken} \cup
    { create_access_token([sub |-> PyStr(u.id)], EXPIRE_MINUTES, now) : u \in users }

\* mutant: the non-admin branch does not filter by owner
ListScope_nofilter(user) == transactions

\* lines 107-110
ListScope(user) ==
    IF user.role = "admin" THEN transactions
    ELSE { t \in transactions : t.user_id = user.id }

\* lines 128-131
ExportScope(user) ==
    IF user.role = "admin" THEN transactions
    ELSE { t \in transactions : t.user_id = user.id }

\* mutant: the owner comparison is dropped
DeleteForbidden_off(user, tx) == FALSE

\* line 118
DeleteForbidden(user, tx) == user.role # "admin" /\ tx.user_id # user.id

isoformat(d) == <<"iso", d>>

\* lines 140-150; the labels stand for the Japanese words for income and
\* expense
CsvRow(t) ==
    [id |-> t.id, user_id |-> t.user_id,
     username |-> IF \E u \in users : u.id = t.user_id
                  THEN (CHOOSE u \in users : u.id = t.user_id).username
                  ELSE "",
     date |-> isoformat(t.date), category |-> t.category, amount |-> t.amount,
     note |-> t.note,
     type |-> IF t.type = "income" THEN "shuunyuu" ELSE "shishutsu"]

Init ==
    /\ started = FALSE
    /\ users = {}
    /\ transactions = {}
    /\ logfile = <<>>
    /\ cookie = NoToken
    /\ issued = NoIssue
    /\ now = 0
    /\ resp = NoResp
    /\ reqs = <<>>

\* create_initial_users
Startup ==
    /\ ~started
    /\ started' = TRUE
    /\ users' = IF Cardinality(users) = 0 THEN SeedUsers ELSE users
    /\ resp' = NoResp
    /\ UNCHANGED <<transactions, logfile, cookie, issued, now, reqs>>

Unauthenticated(op, auth) ==
    /\ resp' = Response(op, auth.status, 0, 0, <<>>, auth.detail)
    /\ UNCHANGED <<users, transactions, logfile>>

api_create_transaction(token, body) ==
    /\ started
    /\ \E auth \in get_current_user(token, now, users) :
        IF ~auth.ok THEN Unauthenticated("create_tx", auth)
        ELSE LET payload == TransactionCreate(body)
                 tx == NewTransaction(transactions, auth.user, payload)
             IN  /\ tx.id <= MaxTx
                 /\ transactions' = transactions \cup {tx}
                 /\ users' = users
                 \* line 101 reads payload.type
                 /\ IF "type" \notin DOMAIN payload
                    THEN /\ logfile' = logfile
                         /\ resp' = [sent |-> body] @@
                                Response("create_tx", 500, auth.user.id, tx.id,
                                         <<>>, "AttributeError")
                    ELSE IF LogHasRoom
                    THEN /\ logfile' = Append(logfile,
                                LogLine(auth.user.id, <<"ADD_TX", tx.id, payload.type>>))
                         /\ resp' = [sent |-> body] @@
                                Response("create_tx", 200, auth.user.id, tx.id,
                                         <<tx>>, "")
                    ELSE /\ logfile' = logfile
                         /\ resp' = [sent |-> body] @@
                                Response("create_tx", 500, auth.user.id, tx.id,
                                         <<>>, "OSError")
    /\ UNCHANGED <<started, cookie, issued, now, reqs>>

api_list_transactions(token) ==
    /\ started
    /\ \E auth \in get_current_user(token, now, users) :
        IF ~auth.ok THEN Unauthenticated("list_tx", auth)
        ELSE /\ \E txs \in OrderByDateDesc(ListScope(auth.user)) :
                   resp' = Response("list_tx", 200, auth.user.id, 0, txs, "")
             /\ UNCHANGED <<users, transactions, logfile>>
    /\ UNCHANGED <<started, cookie, issued, now, reqs>>

api_delete_transaction(token, tx_id) ==
    /\ started
    /\ \E auth \in get_current_user(token, now, users) :
        IF ~auth.ok THEN Unauthenticated("delete_tx", auth)
        ELSE IF ~\E t \in transactions : t.id = tx_id
        THEN /\ resp' = Response("delete_tx", 404, auth.user.id, tx_id, <<>>,
                                 "Transaction not found")
             /\ UNCHANGED <<users, transactions, logfile>>
        ELSE LET tx == CHOOSE t \in transactions : t.id = tx_id IN
             IF DeleteForbidden(auth.user, tx)
             THEN /\ resp' = Response("delete_tx", 403, auth.user.id, tx_id, <<>>,
                                      "Forbidden")
                  /\ UNCHANGED <<users, transactions, logfile>>
             ELSE /\ transactions' = RowsAfterDelete(transactions, tx_id)
                  /\ users' = users
                  /\ IF LogHasRoom
                     THEN /\ logfile' = Append(logfile,
                                 LogLine(auth.user.id, <<"DELETE_TX", tx_id>>))
                          /\ resp' = Response("delete_tx", 200, auth.user.id, tx_id,
                                              <<"deleted">>, "")
                     ELSE /\ logfile' = logfile
                          /\ resp' = Response("delete_tx", 500, auth.user.id, tx_id,
                                              <<>>, "OSError")
    /\ UNCHANGED <<started, cookie, issued, now, reqs>>

api_export_csv(token) ==
    /\ started
    /\ \E auth \in get_current_user(token, now, users) :
        IF ~auth.ok THEN Unauthenticated("export_csv", auth)
        ELSE /\ \E txs \in OrderByDateDesc(ExportScope(auth.user)) :
                   resp' = Response("export_csv", 200, auth.user.id, 0,
                                    [i \in DOMAIN txs |-> CsvRow(txs[i])], "")
             /\ UNCHANGED <<users, transactions, logfile>>
    /\ UNCHANGED <<started, cookie, issued, now, reqs>>

Next ==
    \/ Startup
    \/ \E token \in SessionTokens, body \in TxBodies :
          api_create_transaction(token, body)
    \/ \E token \in SessionTokens : api_list_transactions(token)
    \/ \E token \in SessionTokens, tx_id \in 1..(MaxTx + 1) :
          api_delete_transaction(token, tx_id)
    \/ \E token \in SessionTokens : api_export_csv(token)

Spec == Init /\ [][Next]_vars

(***************************************************************************)
(* main.py: login, logout and the user endpoints                           *)
(***************************************************************************)
LoginNames     == {"alice", "bob", "carol", "mallory"}
LoginPasswords == {"alice_pass", "bob_pass", "carol_pass"}

\* the JSON bodies of POST /api/users; role may be left out
UserBodies ==
    [username : {"bob", "carol"}, password : {"carol_pass"},
     role : {"user", "admin", "root"}]
    \cup [username : {"bob", "carol"}, password : {"carol_pass"}]

\* UserCreate: role is any string, "user" when the body has none
UserCreate(body) ==
    IF "role" \in DOMAIN body THEN body
    ELSE [username |-> body.username, password |-> body.password, role |-> "user"]

UserOut(u) == [id |-> u.id, username |-> u.username, role |-> u.role]

UserResponse(op, status, uid, username, body, error) ==
    [op |-> op, status |-> status, uid |-> uid, username |-> username,
     body |-> body, error |-> error]

\* mutant: the role check of api_create_user is dropped
CreateUserForbidden_off(user) == FALSE

\* line 168
CreateUserForbidden(user) == user.role # "admin"

\* line 162
ListUsersForbidden(user) == user.role # "admin"

UserUnauthenticated(op, auth) ==
    /\ resp' = UserResponse(op, auth.status, 0, "", <<>>, auth.detail)
    /\ UNCHANGED <<users, logfile, cookie, issued>>

\* the process stops; the database, the log and the cookies stay
Restart ==
    /\ started
    /\ started' = FALSE
    /\ resp' = NoResp
    /\ UNCHANGED <<users, transactions, logfile, cookie, issued, now, reqs>>

login(username, password) ==
    /\ started
    /\ IF ~\E u \in users : u.username = username
             /\ verify_password(password, u.password_hash)
       THEN /\ resp' = UserResponse("login", 401, 0, username, <<>>,
                                    "Invalid username or password")
            /\ UNCHANGED <<logfile, cookie, issued>>
       ELSE LET user  == CHOOSE u \in users : u.username = username
                data  == [sub |-> PyStr(user.id)]
                token == create_access_token(data, EXPIRE_MINUTES, now)
            IN  IF LogHasRoom
                THEN /\ logfile' = Append(logfile, LogLine(user.id, <<"LOGIN">>))
                     /\ cookie' = token
                     /\ issued' = [at |-> now, d |-> EXPIRE_MINUTES, data |-> data]
                     /\ resp' = UserResponse("login", 200, user.id, username,
                                    <<[username |-> user.username, role |-> user.role]>>, "")
                ELSE \* record_log raises: the response that carries the
                     \* cookie is never sent
                     /\ resp' = UserResponse("login", 500, user.id, username, <<>>,
                                             "OSError")
                     /\ UNCHANGED <<logfile, cookie, issued>>
    /\ UNCHANGED <<started, users, transactions, now, reqs>>

logout(token) ==
    /\ started
    /\ \E auth \in get_current_user(token, now, users) :
        IF ~auth.ok THEN UserUnauthenticated("logout", auth)
        ELSE IF LogHasRoom
        THEN /\ logfile' = Append(logfile, LogLine(auth.user.id, <<"LOGOUT">>))
             /\ cookie' = NoToken
             /\ issued' = NoIssue
             /\ users' = users
             /\ resp' = UserResponse("logout", 200, auth.user.id, "",
                                     <<"logged out">>, "")
        ELSE /\ resp' = UserResponse("logout", 500, auth.user.id, "", <<>>, "OSError")
             /\ UNCHANGED <<users, logfile, cookie, issued>>
    /\ UNCHANGED <<started, transactions, now, reqs>>

api_list_users(token) ==
    /\ started
    /\ \E auth \in get_current_user(token, now, users) :
        IF ~auth.ok THEN UserUnauthenticated("list_users", auth)
        ELSE IF ListUsersForbidden(auth.user)
        THEN /\ resp' = UserResponse("list_users", 403, auth.user.id, "", <<>>,
                                     "Forbidden")
             /\ UNCHANGED <<users, logfile, cookie, issued>>
        ELSE /\ \E rows \in Perms(users) :
                  resp' = UserResponse("list_users", 200, auth.user.id, "",
                                       [i \in DOMAIN rows |-> UserOut(rows[i])], "")
             /\ UNCHANGED <<users, logfile, cookie, issued>>
    /\ UNCHANGED <<started, transactions, now, reqs>>

api_create_user(token, body) ==
    /\ started
    /\ \E auth \in get_current_user(token, now, users) :
        LET payload == UserCreate(body) IN
        IF ~auth.ok THEN UserUnauthenticated("create_user", auth)
        ELSE IF CreateUserForbidden(auth.user)
        THEN /\ resp' = UserResponse("create_user", 403, auth.user.id,
                                     payload.username, <<>>, "Forbidden")
             /\ UNCHANGED <<users, logfile, cookie, issued>>
        ELSE IF UsernameTaken(users, payload.username)
        THEN \* db.commit() raises; nothing handles it
             /\ resp' = UserResponse("create_user", 500, auth.user.id,
                                     payload.username, <<>>, "IntegrityError")
             /\ UNCHANGED <<users, logfile, cookie, issued>>
        ELSE LET new == User(NextId(users), payload.username, payload.password,
                             payload.role)
             IN  /\ users' = users \cup {new}
                 /\ UNCHANGED <<cookie, issued>>
                 /\ IF LogHasRoom
                    THEN /\ logfile' = Append(logfile,
                                LogLine(auth.user.id, <<"CREATE_USER", new.username>>))
                         /\ resp' = UserResponse("create_user", 200, auth.user.id,
                                        payload.username, <<UserOut(new)>>, "")
                    ELSE /\ logfile' = logfile
                         /\ resp' = UserResponse("create_user", 500, auth.user.id,
                                        payload.username, <<>>, "OSError")
    /\ UNCHANGED <<started, transactions, now, reqs>>

NextUsers ==
    \/ Startup
    \/ Restart
    \/ \E username \in LoginNames, password \in LoginPasswords :
          login(username, password)
    \/ \E token \in SessionTokens \cup {cookie} : logout(token)
    \/ \E token \in SessionTokens \cup {cookie} : api_list_users(token)
    \/ \E token \in SessionTokens \cup {cookie}, body \in UserBodies :
          api_create_user(token, body)

SpecUsers == Init /\ [][NextUsers]_vars

(***************************************************************************)
(* SpecConc: two worker threads handle DELETE /api/transactions/{tx_id}   *)
(* at once.  A request takes one step per store call: the lookup and the  *)
(* checks of lines 115-119, delete_transaction (line 120), then           *)
(* record_log and the response (lines 121-122).  The store runs each call *)
(* on its own, one after another.                                          *)
(***************************************************************************)
Workers == {"w1", "w2"}

Idle == [pc |-> "idle", uid |-> 0, tx_id |-> 0, removed |-> FALSE, status |-> 0]

InitConc ==
    /\ started = TRUE
    /\ users = SeedUsers
    /\ transactions = {}
    /\ logfile = <<>>
    /\ cookie = NoToken
    /\ issued = NoIssue
    /\ now = 0
    /\ resp = NoResp
    /\ reqs = [w \in Workers |-> Idle]

\* lines 114-119
DeleteLookup(w, token, tx_id) ==
    /\ reqs[w].pc = "idle"
    /\ \E auth \in get_current_user(token, now, users) :
        IF ~auth.ok
        THEN reqs' = [reqs EXCEPT ![w] =
                 [pc |-> "done", uid |-> 0, tx_id |-> tx_id, removed |-> FALSE,
                  status |-> auth.status]]
        ELSE IF ~\E t \in transactions : t.id = tx_id
        THEN reqs' = [reqs EXCEPT ![w] =
                 [pc |-> "done", uid |-> auth.user.id, tx_id |-> tx_id,
                  removed |-> FALSE, status |-> 404]]
        ELSE LET tx == CHOOSE t \in transactions : t.id = tx_id IN
             IF DeleteForbidden(auth.user, tx)
             THEN reqs' = [reqs EXCEPT ![w] =
                 [pc |-> "done", uid |-> auth.user.id, tx_id |-> tx_id,
                  removed |-> FALSE, status |-> 403]]
             ELSE reqs' = [reqs EXCEPT ![w] =
                 [pc |-> "checked", uid |-> auth.user.id, tx_id |-> tx_id,
                  removed |-> FALSE, status |-> 0]]
    /\ UNCHANGED <<started, users, transactions, logfile, cookie, issued, now, resp>>

\* line 120: delete_transaction looks the row up again and returns whether
\* it removed one; the handler drops the returned value
DeleteStore(w) ==
    /\ reqs[w].pc = "checked"
    /\ transactions' = RowsAfterDelete(transactions, reqs[w].tx_id)
    /\ reqs' = [reqs EXCEPT ![w].pc = "stored",
                            ![w].removed = DeleteRemoved(transactions, reqs[w].tx_id)]
    /\ UNCHANGED <<started, users, logfile, cookie, issued, now, resp>>

\* lines 121-122
DeleteRespond(w) ==
    /\ reqs[w].pc = "stored"
    /\ IF LogHasRoom
       THEN /\ logfile' = Append(logfile,
                   LogLine(reqs[w].uid, <<"DELETE_TX", reqs[w].tx_id>>))
            /\ reqs' = [reqs EXCEPT ![w].pc = "done", ![w].status = 200]
       ELSE /\ logfile' = logfile
            /\ reqs' = [reqs EXCEPT ![w].pc = "done", ![w].status = 500]
    /\ UNCHANGED <<started, users, transactions, cookie, issued, now, resp>>

\* the response is sent; the thread takes the next request
WorkerDone(w) ==
    /\ reqs[w].pc = "done"
    /\ reqs' = [reqs EXCEPT ![w] = Idle]
    /\ UNCHANGED <<started, users, transactions, logfile, cookie, issued, now, resp>>

\* the date and the type of a row play no part in its deletion
ConcBodies == { b \in TxBodies : b.date = 1 /\ b.type = "expense" }

NextConc ==
    \/ \E token \in SessionTokens, body \in ConcBodies :
          api_create_transaction(token, body)
    \/ \E w \in Workers, token \in SessionTokens, tx_id \in 1..(MaxTx + 1) :
          DeleteLookup(w, token, tx_id)
    \/ \E w \in Workers : DeleteStore(w)
    \/ \E w \in Workers : DeleteRespond(w)
    \/ \E w \in Workers : WorkerDone(w)

SpecConc == InitConc /\ [][NextConc]_vars

(***************************************************************************)
(* Properties                                                              *)
(***************************************************************************)
C1_Step ==
    /\ (resp'.op = "delete_tx" /\ resp'.uid # 0) =>
          \A t \in transactions, u \in users :
             (/\ t.id = resp'.tx_id
              /\ u.id = resp'.uid
              /\ u.role # "admin"
              /\ t.user_id # u.id)
             => (/\ resp'.status = 403
                 /\ t \in transactions'
                 /\ logfile' = logfile)
    /\ \A t \in transactions \ transactions' :
          /\ resp'.op = "delete_tx"
          /\ \E u \in users :
                u.id = resp'.uid /\ (u.role = "admin" \/ t.user_id = u.id)

C2_ListScoped ==
    (resp.op \in {"list_tx", "export_csv"} /\ resp.status = 200) =>
        \A actor \in users : actor.id = resp.uid =>
            LET scope == IF actor.role = "admin" THEN transactions
                         ELSE { t \in transactions : t.user_id = actor.id }
                n == Len(resp.body)
                DateOf(r) == IF resp.op = "export_csv" THEN r.date[2] ELSE r.date
            IN  /\ n = Cardinality(scope)
                /\ { resp.body[i].id : i \in 1..n } = { t.id : t \in scope }
                /\ \A i \in 1..n : \E t \in scope :
                      /\ t.id = resp.body[i].id
                      /\ t.user_id = resp.body[i].user_id
                      /\ t.date = DateOf(resp.body[i])
                      /\ t.category = resp.body[i].category
                      /\ t.amount = resp.body[i].amount
                      /\ t.note = resp.body[i].note
                      /\ actor.role # "admin" => resp.body[i].user_id = actor.id
                /\ \A i, j \in 1..n :
                      i < j => DateOf(resp.body[i]) >= DateOf(resp.body[j])

\* an admin's list holding rows of two owners with different dates
C2_Witness ==
    /\ resp.op = "list_tx" /\ resp.status = 200
    /\ Len(resp.body) = 2
    /\ resp.body[1].user_id # resp.body[2].user_id
    /\ resp.body[1].date > resp.body[2].date
    /\ \E u \in users : u.id = resp.uid /\ u.role = "admin"

C5_Step ==
    /\ \A u, v \in users' : u.username = v.username => u = v
    /\ (/\ resp'.op = "create_user"
        /\ resp'.status \notin {401, 403}
        /\ \E u \in users : u.username = resp'.username)
       => (resp'.status = 500 /\ resp'.error = "IntegrityError" /\ users' = users)
    /\ (resp'.op = "create_user" /\ resp'.error = "IntegrityError")
       => (users' = users /\ logfile' = logfile)

\* C5: creating a user under a username that is stored fails (the commit
\* raises IntegrityError on the unique column) and adds no row; no two
\* stored users ever share a username; a rejected creation leaves the
\* users table as it was.
C5_UniqueUsernames == [][C5_Step]_vars

C5_Witness ==
    /\ resp.op = "create_user"
    /\ resp.error = "IntegrityError"
    /\ resp.username = "carol"

\* C6: a create-transaction request of a resolved session succeeds, stores
\* one row owned by the session user with the submitted category, amount,
\* date, note and type, and appends ADD_TX id=<id> type=<type>.
C6_CreateTransactionSucceeds ==
    (resp.op = "create_tx" /\ resp.uid # 0) =>
        /\ resp.status = 200
        /\ \E t \in transactions :
              /\ t.id = resp.tx_id
              /\ t.user_id = resp.uid
              /\ t.category = resp.sent.category
              /\ t.amount = resp.sent.amount
              /\ t.date = resp.sent.date
              /\ t.note = resp.sent.note
              /\ t.type = resp.sent.type
        /\ Len(logfile) > 0
        /\ logfile[Len(logfile)] =
              LogLine(resp.uid, <<"ADD_TX", resp.tx_id, resp.sent.type>>)

\* C7: a failure of record_log never fails the request: no login, logout
\* or create-user request is answered with the error of the log write.
C7_LogFailureNonFatal ==
    resp.op \in {"login", "logout", "create_user"} => resp.error # "OSError"

C8_Step ==
    /\ (resp'.op \in {"list_users", "create_user"} /\ resp'.uid # 0) =>
          \A u \in users : u.id = resp'.uid =>
             /\ (resp'.status = 403) <=> (u.role # "admin")
             /\ u.role # "admin" =>
                   (resp'.body = <<>> /\ users' = users /\ logfile' = logfile)
    /\ users' # users =>
          \/ users = {} /\ users' = SeedUsers
          \/ /\ resp'.op = "create_user"
             /\ \E u \in users : u.id = resp'.uid /\ u.role = "admin"

\* C8: list users and create user answer 403 exactly when the session's
\* user is not an admin; a 403 carries no user data, leaves the users table
\* and the log as they were; and the users table changes only by the
\* startup seeding or in a create-user request of an admin session.
C8_UserManagementAdminOnly == [][C8_Step]_vars

C8_Witness ==
    /\ resp.op = "create_user"
    /\ resp.status = 403
    /\ resp.username = "carol"
    /\ \A u \in users : u.username # "carol"

\* C9: every stored user has role user or admin.
C9_RoleClosed == \A u \in users : u.role \in {"user", "admin"}

\* C10: a delete request answers "deleted" (and has written DELETE_TX) only
\* if its own delete_transaction call removed the row.
C10_DeletedOnlyIfRemoved ==
    \A w \in Workers :
        (reqs[w].pc = "done" /\ reqs[w].status = 200) => reqs[w].removed

====
